---- MODULE Spec2Model ----
(***************************************************************************)
(* Model of workspace-monitor-gui.py: the monitor discovery query, the     *)
(* flat-file config store, reconciliation of the store with the active     *)
(* monitors, and the edit operations of the configuration window.          *)
(*                                                                         *)
(* Text is a sequence of one-character strings, so that formatting and     *)
(* parsing are computed character by character as the code computes them.  *)
(***************************************************************************)
EXTENDS Integers, Sequences, FiniteSets, TLC

VARIABLES
    monitors,   \* self.monitors: connector name -> MonitorInfo
    configs,    \* self.configs: the ordered list of MonitorConfig
    loaded,     \* what read_config returned to the last load (before _sync_configs)
    prev,       \* self.configs as it was when the last handler started
    op,         \* the last handler that ran, with its arguments
    ui,         \* window: open flag, toast shown, uncaught exception
    fs,         \* what the last on_save left on disk and whether reload ran
    disk,       \* the config file: whether it exists, and its text
    wreq,       \* the list handed to the last write_config call
    rres,       \* the result of the last read_config call
    sop,        \* config store: the last store operation
    reply,      \* the window manager's answer to the last output query
    dres,       \* the outcome of the last get_sway_outputs call
    proc,       \* processes calling read_config and write_config: where each is
    left        \* the config file as it was whenever no process held the lock

vars ==
    <<monitors, configs, loaded, prev, op, ui, fs, disk, wreq, rres, sop, reply, dres,
      proc, left>>

winVars == <<monitors, configs, loaded, prev, op, ui, fs>>
storeVars == <<disk, wreq, rres, sop>>
discVars == <<reply, dres>>
lockVars == <<proc, left>>

-----------------------------------------------------------------------------
(* Text primitives *)

\* The characters of the model in code point order (Python compares strings by
\* code point).
Alphabet ==
    << "\n", " ", "#", "+", ",", "-", "0", "1", "2", "3", "4", "5", "6", "7",
       "8", "9", "A", "B", "C", "E", "F", "R", "T", "U", "a", "b", "c", "e",
       "f", "l", "r", "s", "t", "u", "x" >>

Ord(c) == CHOOSE i \in 1..Len(Alphabet) : Alphabet[i] = c

Digits == <<"0", "1", "2", "3", "4", "5", "6", "7", "8", "9">>

IsDigit(c) == \E i \in 1..10 : Digits[i] = c

DigitVal(c) == (CHOOSE i \in 1..10 : Digits[i] = c) - 1

\* str.strip() without arguments removes whitespace
IsSpace(c) == c \in {" ", "\n"}

RECURSIVE LStrip(_)
LStrip(s) == IF s # <<>> /\ IsSpace(Head(s)) THEN LStrip(Tail(s)) ELSE s

RECURSIVE RStrip(_)
RStrip(s) ==
    IF s # <<>> /\ IsSpace(s[Len(s)]) THEN RStrip(SubSeq(s, 1, Len(s) - 1)) ELSE s

Strip(s) == RStrip(LStrip(s))

\* str.lower()
LowerChar(c) ==
    CASE c = "A" -> "a" [] c = "B" -> "b" [] c = "C" -> "c" [] c = "E" -> "e"
      [] c = "F" -> "f" [] c = "R" -> "r" [] c = "T" -> "t" [] c = "U" -> "u"
      [] OTHER -> c

\* Mutant: the comparison with 'true' without lower()
Lower_Omitted(s) == s

Lower(s) == [i \in 1..Len(s) |-> LowerChar(s[i])]

\* str.split(sep): the pieces between the separators, always at least one
RECURSIVE SplitAcc(_, _, _)
SplitAcc(s, sep, cur) ==
    IF s = <<>> THEN <<cur>>
    ELSE IF Head(s) = sep THEN <<cur>> \o SplitAcc(Tail(s), sep, <<>>)
    ELSE SplitAcc(Tail(s), sep, Append(cur, Head(s)))

Split(s, sep) == SplitAcc(s, sep, <<>>)

\* Iterating a text file: each line ends with its newline, the last one may not
RECURSIVE LinesAcc(_, _)
LinesAcc(s, cur) ==
    IF s = <<>> THEN (IF cur = <<>> THEN <<>> ELSE <<cur>>)
    ELSE IF Head(s) = "\n" THEN <<Append(cur, "\n")>> \o LinesAcc(Tail(s), <<>>)
    ELSE LinesAcc(Tail(s), Append(cur, Head(s)))

FileLines(text) == LinesAcc(text, <<>>)

\* str(int)
RECURSIVE NatToStr(_)
NatToStr(n) ==
    IF n < 10 THEN <<Digits[n + 1]>>
    ELSE Append(NatToStr(n \div 10), Digits[(n % 10) + 1])

\* Mutant: the sign of a negative coordinate is lost
IntToStr_Unsigned(n) == IF n < 0 THEN NatToStr(0 - n) ELSE NatToStr(n)

IntToStr(n) == IF n < 0 THEN <<"-">> \o NatToStr(0 - n) ELSE NatToStr(n)

\* str(bool)
BoolToStr(b) == IF b THEN <<"T", "r", "u", "e">> ELSE <<"F", "a", "l", "s", "e">>

RECURSIVE DigitsVal(_, _)
DigitsVal(s, acc) ==
    IF s = <<>> THEN acc ELSE DigitsVal(Tail(s), 10 * acc + DigitVal(Head(s)))

\* int(str): surrounding whitespace is ignored, an optional sign, then digits;
\* anything else raises ValueError
ParseInt(s) ==
    LET t == Strip(s)
        signed == t # <<>> /\ Head(t) \in {"-", "+"}
        body == IF signed THEN Tail(t) ELSE t
        good == body # <<>> /\ \A i \in 1..Len(body) : IsDigit(body[i])
    IN  IF ~good THEN [ok |-> FALSE, val |-> 0]
        ELSE [ok |-> TRUE,
              val |-> IF signed /\ Head(t) = "-" THEN 0 - DigitsVal(body, 0)
                      ELSE DigitsVal(body, 0)]

StartsWith(s, c) == s # <<>> /\ Head(s) = c

\* Python's order on strings
RECURSIVE StrLess(_, _)
StrLess(a, b) ==
    IF b = <<>> THEN FALSE
    ELSE IF a = <<>> THEN TRUE
    ELSE IF Head(a) = Head(b) THEN StrLess(Tail(a), Tail(b))
    ELSE Ord(Head(a)) < Ord(Head(b))

-----------------------------------------------------------------------------
(* Data model *)

\* MonitorConfig(name, x=0, y=0, is_primary=False)
MonitorConfig(name, x, y, is_primary) ==
    [name |-> name, x |-> x, y |-> y, is_primary |-> is_primary]

\* MonitorInfo; the float scale is kept as the exact ratio scaleNum / scaleDen
MonitorInfo(name, width, height, scaleNum, scaleDen) ==
    [name |-> name, width |-> width, height |-> height,
     scaleNum |-> scaleNum, scaleDen |-> scaleDen, active |-> TRUE]

\* Mutant: the width in pixels, not divided by the scale
scaled_width_Unscaled(m) == m.width

\* int(width / scale) for positive width and scale
scaled_width(m) == (m.width * m.scaleDen) \div m.scaleNum

scaled_height(m) == (m.height * m.scaleDen) \div m.scaleNum

-----------------------------------------------------------------------------
(* Config store: write_config, read_config *)

RECURSIVE Concat(_)
Concat(ss) == IF ss = <<>> THEN <<>> ELSE Head(ss) \o Concat(Tail(ss))

\* The header comment block of the file. Each comment's wording is cut to its
\* first characters (the second one keeps a comma of "name,x,y,is_primary").
HeaderText ==
    <<"#", " ", "a", "\n">> \o <<"#", " ", "F", " ", "a", ",", "x", "\n">>
        \o <<"#", " ", "R", "\n">> \o <<"\n">>

\* f"{cfg.name},{cfg.x},{cfg.y},{cfg.is_primary}\n"
ConfigLine(cfg) ==
    cfg.name \o <<",">> \o IntToStr(cfg.x) \o <<",">> \o IntToStr(cfg.y)
        \o <<",">> \o BoolToStr(cfg.is_primary) \o <<"\n">>

\* What a complete write_config leaves in the file
FileText(cfgs) == HeaderText \o Concat([i \in 1..Len(cfgs) |-> ConfigLine(cfgs[i])])

NoFile == [exists |-> FALSE, text |-> <<>>, by |-> "none", lines |-> <<>>]

WriteFaults == {"none", "mkdir", "lock", "open", "write"}

\* write_config(configs) on file d. fault names the system call that fails:
\* mkdir is outside the try block and its error reaches the caller; the others
\* raise IOError inside it, which is caught and answered with False. A write
\* error leaves the header and the first k entries in the truncated file.
write_config(cfgs, d, fault, k) ==
    CASE fault = "mkdir" -> [raised |-> TRUE, ok |-> FALSE, disk |-> d]
      [] fault \in {"lock", "open"} -> [raised |-> FALSE, ok |-> FALSE, disk |-> d]
      [] fault = "write" ->
            [raised |-> FALSE, ok |-> FALSE,
             disk |-> [exists |-> TRUE, text |-> FileText(SubSeq(cfgs, 1, k)),
                       by |-> "partial", lines |-> <<>>]]
      [] OTHER ->
            [raised |-> FALSE, ok |-> TRUE,
             disk |-> [exists |-> TRUE, text |-> FileText(cfgs),
                       by |-> "write", lines |-> <<>>]]

\* The body of the loop over the lines of the file: the entry a line adds, if
\* any, or the ValueError that int() raises
ParseLine(raw) ==
    LET line == Strip(raw)
        parts == Split(line, ",")
        xr == IF parts[2] # <<>> THEN ParseInt(parts[2]) ELSE [ok |-> TRUE, val |-> 0]
        yr == IF parts[3] # <<>> THEN ParseInt(parts[3]) ELSE [ok |-> TRUE, val |-> 0]
    IN  IF line = <<>> \/ StartsWith(line, "#") THEN [raised |-> FALSE, add |-> <<>>]
        ELSE IF Len(parts) >= 4 THEN
            IF xr.ok /\ yr.ok
            THEN [raised |-> FALSE,
                  add |-> <<MonitorConfig(parts[1], xr.val, yr.val,
                                          Lower(parts[4]) = <<"t", "r", "u", "e">>)>>]
            ELSE [raised |-> TRUE, add |-> <<>>]
        ELSE IF Len(parts) = 1 THEN
            [raised |-> FALSE, add |-> <<MonitorConfig(parts[1], 0, 0, FALSE)>>]
        ELSE [raised |-> FALSE, add |-> <<>>]

\* The loop: configs grows line by line; an exception ends the loop and leaves
\* in configs what was appended before
RECURSIVE ParseLines(_, _)
ParseLines(lines, acc) ==
    IF lines = <<>> THEN [configs |-> acc, failed |-> FALSE]
    ELSE LET r == ParseLine(Head(lines))
         IN  IF r.raised THEN [configs |-> acc, failed |-> TRUE]
             ELSE ParseLines(Tail(lines), acc \o r.add)

ReadFaults == {"none", "lock", "open"}

\* read_config() on file d. fault names the system call that fails (IOError):
\* opening or locking the lock file, opening the config file. The result is
\* the configs list, which the function returns after the except clause too.
read_config(d, fault) ==
    IF ~d.exists THEN [configs |-> <<>>, failed |-> FALSE]
    ELSE IF fault \in {"lock", "open"} THEN [configs |-> <<>>, failed |-> TRUE]
    ELSE ParseLines(FileLines(d.text), <<>>)

-----------------------------------------------------------------------------
(* The config store on its own: write_config and read_config applied to     *)
(* lists and to hand-edited files drawn from bounded sets                   *)

MaxWrite == 2       \* entries of a list handed to write_config
MaxLines == 2       \* lines of a hand-edited file

\* Connector names a caller may hand to write_config, plain and awkward ones
WriteNames ==
    { <<"A">>, <<"B", "-", "1">>, <<>>,
      <<"#", "A">>, <<"A", ",", "B">>, <<" ", "A">>, <<"A", "\n", "B">> }

WritePlacements == { <<0, 0, FALSE>>, <<-10, 1920, TRUE>>, <<1920, -1080, FALSE>> }

WriteEntries == { MonitorConfig(n, c[1], c[2], c[3]) : n \in WriteNames, c \in WritePlacements }

SeqsUpTo(S, n) == UNION { [1..m -> S] : m \in 0..n }

WriteLists == SeqsUpTo(WriteEntries, MaxWrite)

\* A line of a hand-edited file, described by its fields
Line(kind, f) == [kind |-> kind, f |-> f]

NumFieldPairs ==
    { << <<>>, <<>> >>, << <<"7">>, <<"-", "1", "0">> >>, << <<"x">>, <<"0">> >>,
      << <<"0">>, <<"1", "x">> >>, << <<" ", "3">>, <<"+", "2">> >> }

BoolFields ==
    { <<"t", "r", "u", "e">>, <<"T", "R", "U", "E">>, <<"T", "r", "u", "e">>,
      <<"f", "a", "l", "s", "e">>, <<" ", "t", "r", "u", "e">>, <<>>, <<"x">> }

HandLines ==
    { Line("cfg", <<<<"A">>, p[1], p[2], <<"t", "r", "u", "e">>>>) : p \in NumFieldPairs }
    \cup { Line("cfg", <<<<"B">>, <<"7">>, <<"-", "1", "0">>, b>>) : b \in BoolFields }
    \cup { Line("cfg", <<<<"B">>, <<>>, <<"3">>, <<"T", "R", "U", "E", " ">>, <<"x">>>>),
           Line("legacy", <<<<"A">>>>),
           Line("short", <<<<"B">>, <<"7">>>>),
           Line("note", <<<<" ", "x">>>>),
           Line("blank", <<>>) }

RECURSIVE Join(_)
Join(fields) ==
    IF fields = <<>> THEN <<>>
    ELSE IF Len(fields) = 1 THEN Head(fields)
    ELSE Head(fields) \o <<",">> \o Join(Tail(fields))

RenderLine(l) == (IF l.kind = "note" THEN <<"#">> ELSE <<>>) \o Join(l.f) \o <<"\n">>

HandFile(ls) ==
    [exists |-> TRUE, text |-> Concat([i \in 1..Len(ls) |-> RenderLine(ls[i])]),
     by |-> "edit", lines |-> ls]

NoRead == [configs |-> <<>>, failed |-> FALSE]

StoreOp(kind, fault, ok, raised) ==
    [kind |-> kind, fault |-> fault, ok |-> ok, raised |-> raised]

WinIdle ==
    /\ monitors = <<>>
    /\ configs = <<>>
    /\ loaded = <<>>
    /\ prev = <<>>
    /\ op = [kind |-> "none", name |-> <<>>, dir |-> "", delta |-> 0, n |-> 0]
    /\ ui = [open |-> FALSE, toast |-> "none", raised |-> FALSE]
    /\ fs = [log |-> <<>>]

StoreIdle ==
    /\ disk = NoFile
    /\ wreq = <<>>
    /\ rres = NoRead
    /\ sop = StoreOp("init", "none", TRUE, FALSE)

LockIdle ==
    /\ proc = <<>>
    /\ left = {}

DiscIdle ==
    /\ reply = [kind |-> "none"]
    /\ dres = [raised |-> FALSE, monitors |-> <<>>]

\* The inputs of a run: the file as the user left it (absent, or edited by
\* hand: the legacy format comes from such files) and the list that the process
\* will hand to write_config
InitStore ==
    /\ WinIdle /\ DiscIdle /\ LockIdle
    /\ \/ disk = NoFile /\ wreq \in WriteLists
       \/ disk \in { HandFile(ls) : ls \in SeqsUpTo(HandLines, MaxLines) } /\ wreq = <<>>
    /\ rres = NoRead
    /\ sop = StoreOp("init", "none", TRUE, FALSE)

\* The process calls write_config(wreq)
StoreWrite ==
    \E fault \in WriteFaults, k \in 0..Len(wreq) :
        /\ fault # "write" => k = 0
        /\ LET r == write_config(wreq, disk, fault, k) IN
            /\ disk' = r.disk
            /\ sop' = StoreOp("write", fault, r.ok, r.raised)
        /\ rres' = NoRead
        /\ UNCHANGED <<wreq, winVars, discVars, lockVars>>

\* A process calls read_config()
StoreRead ==
    \E fault \in ReadFaults :
        /\ fault # "none" => disk.exists
        /\ rres' = read_config(disk, fault)
        /\ sop' = StoreOp("read", fault, ~rres'.failed, FALSE)
        /\ UNCHANGED <<disk, wreq, winVars, discVars, lockVars>>

NextStore == StoreWrite \/ StoreRead

SpecStore == InitStore /\ [][NextStore]_vars

-----------------------------------------------------------------------------
(* Claims about the config store *)

\* A read_config that met no I/O error, of a file that a complete write_config left
ReadOfWrite == sop.kind = "read" /\ sop.fault = "none" /\ disk.by = "write"

\* A name the line format carries: no comma, no line break, no leading
\* whitespace, no leading '#'
PlainName(n) ==
    /\ \A i \in 1..Len(n) : n[i] \notin {",", "\n"}
    /\ n # <<>> => ~IsSpace(n[1]) /\ n[1] # "#"

\* C3 as claimed: write_config(configs) followed by read_config() returns
\* configs, for every list of entries.
C3_RoundTripEveryList == ReadOfWrite => rres.configs = wreq

\* C3 (amended): write_config(configs) followed by read_config() returns a list
\* equal to configs (same length, same (name, x, y, is_primary) at each index),
\* for every list whose names hold no comma and no line break and begin neither
\* with whitespace nor with '#'.
C3_RoundTrip ==
    (ReadOfWrite /\ \A i \in 1..Len(wreq) : PlainName(wreq[i].name)) => rres.configs = wreq

C3_Witness ==
    /\ ReadOfWrite
    /\ Len(wreq) = 2
    /\ wreq[1].name = <<"B", "-", "1">> /\ wreq[1].x < 0 /\ wreq[1].is_primary
    /\ wreq[2].name = <<>> /\ ~wreq[2].is_primary
    /\ rres.configs = wreq

\* C6: a read_config that met a failure (an I/O error, or a parse error on any
\* line) returns the empty list.
C6_FailedReadIsEmpty == (sop.kind = "read" /\ rres.failed) => rres.configs = <<>>

\* The value of a numeric field that is an integer literal (Python's int())
IntegerFields ==
    { << <<"7">>, 7 >>, << <<"-", "1", "0">>, -10 >>, << <<"0">>, 0 >>,
      << <<" ", "3">>, 3 >>, << <<"+", "2">>, 2 >>, << <<"3">>, 3 >> }

IsIntegerField(f) == \E p \in IntegerFields : p[1] = f

NumberOrZero(f) ==
    IF IsIntegerField(f) THEN (CHOOSE p \in IntegerFields : p[1] = f)[2] ELSE 0

\* The literal "true" in any letter case
IsTrueLiteral(f) ==
    /\ Len(f) = 4
    /\ f[1] \in {"t", "T"} /\ f[2] \in {"r", "R"} /\ f[3] \in {"u", "U"} /\ f[4] \in {"e", "E"}

\* The entry that a line of a hand-edited file stands for
EntryOf(l) ==
    CASE l.kind = "cfg" ->
            <<MonitorConfig(l.f[1], NumberOrZero(l.f[2]), NumberOrZero(l.f[3]),
                            IsTrueLiteral(l.f[4]))>>
      [] l.kind = "legacy" -> <<MonitorConfig(l.f[1], 0, 0, FALSE)>>
      [] OTHER -> <<>>

EntriesOf(ls) == Concat([i \in 1..Len(ls) |-> EntryOf(ls[i])])

\* A line with a numeric field that is neither empty nor an integer
Malformed(l) ==
    /\ l.kind = "cfg"
    /\ \E j \in {2, 3} : l.f[j] # <<>> /\ ~IsIntegerField(l.f[j])

\* The lines before the first malformed one
WellFormedPrefix(ls) ==
    IF \E i \in 1..Len(ls) : Malformed(ls[i])
    THEN SubSeq(ls, 1, (CHOOSE i \in 1..Len(ls) :
                            Malformed(ls[i]) /\ \A j \in 1..(i - 1) : ~Malformed(ls[j])) - 1)
    ELSE ls

ReadOfEdit == sop.kind = "read" /\ sop.fault = "none" /\ disk.by = "edit"

\* C7 as claimed: every 4-field line yields an entry, an empty or malformed
\* numeric field counting as 0, is_primary true exactly for the literal "true"
\* in any case, and parsing goes on with the next line.
C7_MalformedNumberIsZero == ReadOfEdit => rres.configs = EntriesOf(disk.lines)

\* C7 (amended): an empty numeric field yields 0, is_primary is true exactly for
\* the literal "true" in any case, and parsing goes on with the next line; a
\* numeric field that is neither empty nor an integer ends the read: its line and
\* the lines after it yield no entry.
C7_EmptyNumberIsZero ==
    ReadOfEdit =>
        IF \E i \in 1..Len(disk.lines) : Malformed(disk.lines[i])
        THEN /\ rres.failed
             /\ \E k \in 0..Len(EntriesOf(WellFormedPrefix(disk.lines))) :
                    rres.configs = SubSeq(EntriesOf(WellFormedPrefix(disk.lines)), 1, k)
        ELSE /\ ~rres.failed
             /\ rres.configs = EntriesOf(disk.lines)

C7_Witness ==
    /\ ReadOfEdit
    /\ Len(disk.lines) = 2
    /\ disk.lines[1].kind = "cfg" /\ disk.lines[1].f[2] = <<>>
    /\ disk.lines[2].kind = "cfg" /\ disk.lines[2].f[4] = <<"T", "R", "U", "E">>
    /\ Len(rres.configs) = 2
    /\ rres.configs[1].x = 0 /\ rres.configs[2].is_primary

-----------------------------------------------------------------------------
(* Discovery: get_sway_outputs *)

\* dict.get(key, default) on a JSON object, a function from its keys
Get(o, key, default) == IF key \in DOMAIN o THEN o[key] ELSE default

\* A JSON value: an object carries its members in m, a list its items
JObject(m) == [t |-> "object", m |-> m]
JList(items) == [t |-> "list", items |-> items]
JOther(t) == [t |-> t, m |-> <<>>]

DefaultMode == [width |-> 1920, height |-> 1080]
DefaultScale == [num |-> 1, den |-> 1]

Returned(ms) == [raised |-> FALSE, exc |-> "none", monitors |-> ms]
Raised(exc) == [raised |-> TRUE, exc |-> exc, monitors |-> <<>>]

\* The loop over the outputs: monitors grows item by item; an exception ends
\* the call
RECURSIVE CollectOutputs(_, _)
CollectOutputs(items, acc) ==
    IF items = <<>> THEN Returned(acc)
    ELSE LET o == Head(items) IN
        IF o.t # "object" THEN Raised("AttributeError")          \* o.get on a non-dict
        ELSE IF ~Get(o.m, "active", FALSE) THEN CollectOutputs(Tail(items), acc)
        ELSE LET mode == Get(o.m, "current_mode", DefaultMode)
                 scale == Get(o.m, "scale", DefaultScale)
             IN  IF "name" \notin DOMAIN o.m THEN Raised("KeyError")  \* o['name']
                 ELSE CollectOutputs(Tail(items),
                        Append(acc, MonitorInfo(o.m.name, mode.width, mode.height,
                                                scale.num, scale.den)))

\* get_sway_outputs() when the query is answered by r. The except clause
\* catches CalledProcessError, JSONDecodeError and FileNotFoundError only.
get_sway_outputs(r) ==
    CASE r.kind = "process_error" -> Returned(<<>>)      \* CalledProcessError
      [] r.kind = "no_binary" -> Returned(<<>>)          \* FileNotFoundError
      [] r.kind = "bad_json" -> Returned(<<>>)           \* JSONDecodeError
      [] OTHER ->
            IF r.json.t = "list" THEN CollectOutputs(r.json.items, <<>>)
            ELSE IF r.json.t = "object" THEN
                \* iterating a dict yields its keys, which are strings
                IF DOMAIN r.json.m = {} THEN Returned(<<>>) ELSE Raised("AttributeError")
            ELSE Raised("TypeError")                     \* not iterable

Answer(json) == [kind |-> "ok", json |-> json]
NoAnswer(kind) == [kind |-> kind, json |-> JOther("null")]

-----------------------------------------------------------------------------
(* The connectors of the model and their geometry *)

Names == { <<"A">>, <<"B">>, <<"C">> }

\* current_mode and scale that the window manager reports for a connector
ModeOf(n) ==
    CASE n = <<"A">> -> [width |-> 1920, height |-> 1080]
      [] n = <<"B">> -> [width |-> 2560, height |-> 1440]
      [] OTHER -> [width |-> 3000, height |-> 2000]

ScaleOf(n) ==
    CASE n = <<"A">> -> [num |-> 1, den |-> 1]
      [] n = <<"B">> -> [num |-> 3, den |-> 2]
      [] OTHER -> [num |-> 2, den |-> 1]

\* The output object of connector n
Output(n, active) ==
    JObject([name |-> n, active |-> active, current_mode |-> ModeOf(n), scale |-> ScaleOf(n)])

-----------------------------------------------------------------------------
(* Discovery on its own: get_sway_outputs applied to answers drawn from a    *)
(* bounded set                                                              *)

MaxOutputs == 2     \* items of the list that the window manager answers with

\* Items of an answer: well-formed outputs, and malformed ones
OutputItems ==
    { Output(n, a) : n \in Names, a \in BOOLEAN }
    \cup { JObject([name |-> n, current_mode |-> ModeOf(n)]) : n \in Names }
    \cup { JObject([name |-> n, active |-> TRUE]) : n \in Names }
    \cup { JObject([active |-> a, scale |-> ScaleOf(<<"A">>)]) : a \in BOOLEAN }
    \cup { JOther("number") }

SwayReplies ==
    { Answer(JList(items)) : items \in SeqsUpTo(OutputItems, MaxOutputs) }
    \cup { Answer(JObject(<<>>)), Answer(JObject([success |-> FALSE])), Answer(JOther("number")) }
    \cup { NoAnswer(k) : k \in {"process_error", "no_binary", "bad_json"} }

Pending == [raised |-> FALSE, exc |-> "pending", monitors |-> <<>>]

InitDiscovery ==
    /\ WinIdle /\ StoreIdle /\ LockIdle
    /\ reply \in SwayReplies
    /\ dres = Pending

Query ==
    /\ dres = Pending
    /\ dres' = get_sway_outputs(reply)
    /\ UNCHANGED <<reply, winVars, storeVars, lockVars>>

NextDiscovery == Query

SpecDiscovery == InitDiscovery /\ [][NextDiscovery]_vars

\* An answer that is a list of objects in which every active output has a name
WellFormed(r) ==
    /\ r.kind = "ok"
    /\ r.json.t = "list"
    /\ \A i \in 1..Len(r.json.items) :
        /\ r.json.items[i].t = "object"
        /\ Get(r.json.items[i].m, "active", FALSE) => "name" \in DOMAIN r.json.items[i].m

ActiveItems(items) == SelectSeq(items, LAMBDA o : Get(o.m, "active", FALSE))

\* C8: discovery never raises; on every failure of the query (failing process,
\* missing binary, invalid JSON, malformed structure) it returns the empty
\* sequence, and on success exactly the outputs whose active flag is true.
C8_DiscoveryNeverRaises ==
    dres # Pending =>
        /\ ~dres.raised
        /\ ~WellFormed(reply) => dres.monitors = <<>>
        /\ WellFormed(reply) =>
            LET act == ActiveItems(reply.json.items) IN
                /\ Len(dres.monitors) = Len(act)
                /\ \A i \in 1..Len(act) : dres.monitors[i].name = act[i].m.name

-----------------------------------------------------------------------------
(* Reconciliation: MonitorConfigWindow._sync_configs *)

\* {m.name: m for m in get_sway_outputs()}: a later output replaces an earlier
\* one of the same name
monitors_dict(ms) ==
    [n \in {ms[i].name : i \in 1..Len(ms)} |->
        ms[CHOOSE i \in 1..Len(ms) :
            ms[i].name = n /\ \A j \in (i + 1)..Len(ms) : ms[j].name # n]]

NamesOf(cfgs) == {cfgs[i].name : i \in 1..Len(cfgs)}

\* Mutant: sorted(names, reverse=True)
RECURSIVE SortedNames_Descending(_)
SortedNames_Descending(S) ==
    IF S = {} THEN <<>>
    ELSE LET most == CHOOSE n \in S : \A o \in S \ {n} : StrLess(o, n)
         IN  <<most>> \o SortedNames_Descending(S \ {most})

\* sorted(names): ascending in Python's string order
RECURSIVE SortedNames(_)
SortedNames(S) ==
    IF S = {} THEN <<>>
    ELSE LET least == CHOOSE n \in S : \A o \in S \ {n} : StrLess(n, o)
         IN  <<least>> \o SortedNames(S \ {least})

\* Mutant: the entries of disconnected monitors stay
KeepActive_Everything(mons, cfgs) == cfgs

\* Remove configs for disconnected monitors
KeepActive(mons, cfgs) == SelectSeq(cfgs, LAMBDA c : c.name \in DOMAIN mons)

\* Add new monitors, each to the right of the last entry of the list
RECURSIVE AppendNew(_, _, _)
AppendNew(mons, cfgs, names) ==
    IF names = <<>> THEN cfgs
    ELSE LET last == cfgs[Len(cfgs)]
             x == IF cfgs # <<>> /\ last.name \in DOMAIN mons
                  THEN last.x + scaled_width(mons[last.name])
                  ELSE 0
         IN  AppendNew(mons, Append(cfgs, MonitorConfig(Head(names), x, 0, FALSE)),
                       Tail(names))

\* Ensure exactly one primary: without any, the first entry of
\* sorted(configs, key=name) (a stable sort) becomes primary
EnsurePrimary(cfgs) ==
    IF cfgs = <<>> \/ \E i \in 1..Len(cfgs) : cfgs[i].is_primary THEN cfgs
    ELSE LET first == CHOOSE i \in 1..Len(cfgs) :
                        /\ \A j \in 1..Len(cfgs) : ~StrLess(cfgs[j].name, cfgs[i].name)
                        /\ \A j \in 1..(i - 1) : cfgs[j].name # cfgs[i].name
         IN  [cfgs EXCEPT ![first].is_primary = TRUE]

sync_configs(mons, cfgs) ==
    EnsurePrimary(AppendNew(mons, KeepActive(mons, cfgs),
                            SortedNames(DOMAIN mons \ NamesOf(cfgs))))

-----------------------------------------------------------------------------
(* Reconciliation on its own: _sync_configs applied to a discovered set of   *)
(* monitors and a loaded list drawn from bounded sets                       *)

MaxStored == 3      \* entries of the loaded list

NameOrder == << <<"A">>, <<"B">>, <<"C">> >>

\* The answer of the window manager when the connectors of S are active
ReplyFor(S) == Answer(JList([i \in 1..Len(NameOrder) |-> Output(NameOrder[i], NameOrder[i] \in S)]))

MonitorSets == { monitors_dict(get_sway_outputs(ReplyFor(S)).monitors) : S \in SUBSET Names }

StoredCoords == { <<0, 0>>, <<100, -50>> }

StoredEntries ==
    { MonitorConfig(n, c[1], c[2], b) : n \in Names, c \in StoredCoords, b \in BOOLEAN }

\* A handler and its arguments; n counts the edits and saves of the session
Op(kind, name, dir, delta) ==
    [kind |-> kind, name |-> name, dir |-> dir, delta |-> delta, n |-> 0]

NoSave == [log |-> <<>>]
Fresh == [open |-> TRUE, toast |-> "none", raised |-> FALSE]

\* self.monitors and self.configs as the constructor loads them
InitSync ==
    /\ StoreIdle /\ DiscIdle /\ LockIdle
    /\ monitors \in MonitorSets
    /\ loaded \in SeqsUpTo(StoredEntries, MaxStored)
    /\ configs = loaded
    /\ prev = loaded
    /\ op = Op("load", <<>>, "", 0)
    /\ ui = Fresh
    /\ fs = NoSave

Sync ==
    /\ op.kind = "load"
    /\ configs' = sync_configs(monitors, configs)
    /\ prev' = configs
    /\ op' = Op("sync", <<>>, "", 0)
    /\ UNCHANGED <<monitors, loaded, ui, fs, storeVars, discVars, lockVars>>

NextSync == Sync

SpecSync == InitSync /\ [][NextSync]_vars

PrimaryIndexes(cfgs) == {i \in 1..Len(cfgs) : cfgs[i].is_primary}

\* C1: after reconciliation the set of names in the config list equals the set
\* of active monitor names.
C1_NamesMatchActive == op.kind = "sync" => NamesOf(configs) = DOMAIN monitors

C1_Witness ==
    /\ op.kind = "sync"
    /\ \E n \in NamesOf(loaded) : n \notin DOMAIN monitors
    /\ \E n \in DOMAIN monitors : n \notin NamesOf(loaded)
    /\ \E n \in DOMAIN monitors : n \in NamesOf(loaded)
    /\ NamesOf(configs) = DOMAIN monitors

\* C2: after reconciliation exactly one entry of a non-empty config list has
\* is_primary = true, whatever the store marked primary (stated for the stores
\* that name each connector once).
C2_ExactlyOnePrimary ==
    (op.kind = "sync" /\ configs # <<>> /\ Cardinality(NamesOf(loaded)) = Len(loaded))
        => Cardinality(PrimaryIndexes(configs)) = 1

\* Scaled width and height of the connectors: int(width / scale)
ExpectedScaled(n) ==
    CASE n = <<"A">> -> [w |-> 1920, h |-> 1080]
      [] n = <<"B">> -> [w |-> 1706, h |-> 960]
      [] OTHER -> [w |-> 1500, h |-> 1000]

\* Ascending name order of the connectors
NameRank(n) == CHOOSE i \in 1..Len(NameOrder) : NameOrder[i] = n

\* C10: reconciliation keeps the surviving entries in their stored order with
\* unchanged coordinates and appends the new connectors after them in ascending
\* name order, each with x = L.x + L.scaledWidth for the entry L before it
\* (x = 0 at the head of the list).
C10_AppendRightOfLast ==
    op.kind = "sync" =>
        LET kept == SelectSeq(loaded, LAMBDA c : c.name \in DOMAIN monitors)
            k == Len(kept)
        IN  /\ Len(configs) >= k
            /\ \A i \in 1..k :
                /\ configs[i].name = kept[i].name
                /\ configs[i].x = kept[i].x
                /\ configs[i].y = kept[i].y
            /\ {configs[j].name : j \in (k + 1)..Len(configs)} = DOMAIN monitors \ NamesOf(loaded)
            /\ \A j \in (k + 1)..Len(configs) :
                /\ j > k + 1 => NameRank(configs[j - 1].name) < NameRank(configs[j].name)
                /\ configs[j].x =
                    IF j = 1 THEN 0
                    ELSE configs[j - 1].x + ExpectedScaled(configs[j - 1].name).w

C10_Witness ==
    /\ op.kind = "sync"
    /\ Len(loaded) = 1 /\ loaded[1].name = <<"B">> /\ loaded[1].x = 100
    /\ DOMAIN monitors = Names
    /\ Len(configs) = 3
    /\ configs[1].name = <<"B">> /\ configs[1].x = 100 /\ configs[1].y = -50
    /\ configs[2].name = <<"A">> /\ configs[2].x = 1806
    /\ configs[3].name = <<"C">> /\ configs[3].x = 3726

-----------------------------------------------------------------------------
(* The handlers of the configuration window *)

\* next((c for c in configs if ...), None): the first index among those
\* that satisfy the condition, 0 standing for None
FirstIndex(S) == IF S = {} THEN 0 ELSE CHOOSE i \in S : \A j \in S : i <= j

IndexesOfName(cfgs, name) == {i \in 1..Len(cfgs) : cfgs[i].name = name}

\* _on_change('primary', name)
on_change_primary(cfgs, name) ==
    [i \in 1..Len(cfgs) |-> [cfgs[i] EXCEPT !.is_primary = (cfgs[i].name = name)]]

\* MonitorRow._on_coord_changed of the row of entry i
on_coord_changed(cfgs, i, x, y) == [cfgs EXCEPT ![i].x = x, ![i].y = y]

Directions == {"east", "west", "north", "south"}

\* _position_relative_to_primary(name, direction)
position_relative_to_primary(mons, cfgs, name, direction) ==
    LET ci == FirstIndex(IndexesOfName(cfgs, name))
        pi == FirstIndex({i \in 1..Len(cfgs) : cfgs[i].is_primary})
        cfg == cfgs[ci]
        primary_cfg == cfgs[pi]
        mon == mons[name]
        primary_mon == mons[primary_cfg.name]
    IN  IF ci = 0 \/ pi = 0 THEN cfgs
        ELSE IF cfg.name = primary_cfg.name THEN cfgs
        ELSE IF name \notin DOMAIN mons \/ primary_cfg.name \notin DOMAIN mons THEN cfgs
        ELSE CASE direction = "east" ->
                    [cfgs EXCEPT ![ci].x = primary_cfg.x + scaled_width(primary_mon),
                                 ![ci].y = primary_cfg.y]
               [] direction = "west" ->
                    [cfgs EXCEPT ![ci].x = primary_cfg.x - scaled_width(mon),
                                 ![ci].y = primary_cfg.y]
               [] direction = "north" ->
                    [cfgs EXCEPT ![ci].x = primary_cfg.x,
                                 ![ci].y = primary_cfg.y - scaled_height(mon)]
               [] direction = "south" ->
                    [cfgs EXCEPT ![ci].x = primary_cfg.x,
                                 ![ci].y = primary_cfg.y + scaled_height(primary_mon)]
               [] OTHER -> cfgs

\* list.pop(i) and list.insert(j, e), with indexes counted from 1
Pop(s, i) == SubSeq(s, 1, i - 1) \o SubSeq(s, i + 1, Len(s))
Insert(s, j, e) == SubSeq(s, 1, j - 1) \o <<e>> \o SubSeq(s, j, Len(s))

\* Mutant: the test 0 <= new_idx is missing, and list.insert(-1, cfg) puts
\* the first entry before the last one
move_monitor_NoLowerBound(cfgs, name, direction) ==
    LET i == FirstIndex(IndexesOfName(cfgs, name))
        new_idx == i + direction
    IN  IF i # 0 /\ new_idx <= Len(cfgs)
        THEN IF new_idx >= 1 THEN Insert(Pop(cfgs, i), new_idx, cfgs[i])
             ELSE IF Len(cfgs) = 1 THEN cfgs
             ELSE Insert(Pop(cfgs, i), Len(cfgs) - 1, cfgs[i])
        ELSE cfgs

\* _move_monitor(name, direction)
move_monitor(cfgs, name, direction) ==
    LET i == FirstIndex(IndexesOfName(cfgs, name))
        new_idx == i + direction
    IN  IF i # 0 /\ 1 <= new_idx /\ new_idx <= Len(cfgs)
        THEN Insert(Pop(cfgs, i), new_idx, cfgs[i])
        ELSE cfgs

SaveFailed == "Fehler beim Speichern!"
Refreshed == "Aktualisiert"

\* on_save: write_config, then write_sway_output_config, then swaymsg reload,
\* then close. log lists what was carried out, in order. ffault and rfault say
\* whether writing the fragment and starting swaymsg fail; neither call is
\* inside a try block.
on_save(cfgs, d, fault, k, ffault, rfault) ==
    LET w == write_config(cfgs, d, fault, k) IN
    IF w.raised THEN
        [disk |-> w.disk, log |-> <<>>,
         ui |-> [open |-> TRUE, toast |-> "none", raised |-> TRUE]]
    ELSE IF ~w.ok THEN
        [disk |-> w.disk, log |-> <<>>,
         ui |-> [open |-> TRUE, toast |-> SaveFailed, raised |-> FALSE]]
    ELSE IF ffault THEN
        [disk |-> w.disk, log |-> <<"store">>,
         ui |-> [open |-> TRUE, toast |-> "none", raised |-> TRUE]]
    ELSE IF rfault THEN
        [disk |-> w.disk, log |-> <<"store", "fragment">>,
         ui |-> [open |-> TRUE, toast |-> "none", raised |-> TRUE]]
    ELSE
        [disk |-> w.disk, log |-> <<"store", "fragment", "reload">>,
         ui |-> [open |-> FALSE, toast |-> "none", raised |-> FALSE]]

-----------------------------------------------------------------------------
(* The window: construction, then the handlers in any order *)

MaxSession == 2     \* entries of the config file when the window opens
MaxEdits == 1       \* edits and saves of a session

SessionEntries ==
    { MonitorConfig(n, 0, 0, FALSE) : n \in Names }
    \cup { MonitorConfig(n, 100, -50, TRUE) : n \in Names }

\* The config file when the window opens: absent, or left by an earlier save
SessionFiles ==
    {NoFile} \cup
    { write_config(l, NoFile, "none", 0).disk : l \in SeqsUpTo(SessionEntries, MaxSession) }

\* Answers to the output query during a session: the active connectors, a
\* failing swaymsg, an active output without a name
SessionReplies ==
    { ReplyFor(S) : S \in SUBSET Names }
    \cup { NoAnswer("process_error"), Answer(JList(<<JObject([active |-> TRUE])>>)) }

\* What get_sway_outputs makes of these answers
SessionDiscoveries == { get_sway_outputs(r) : r \in SessionReplies }

\* Coordinates typed into the spin buttons of a row
EditCoords == { <<0, 0>>, <<-300, 200>> }

\* MonitorConfigWindow.__init__: get_sway_outputs, read_config, _sync_configs
Init ==
    /\ DiscIdle /\ LockIdle
    /\ disk \in SessionFiles
    /\ wreq = <<>> /\ rres = NoRead /\ sop = StoreOp("init", "none", TRUE, FALSE)
    /\ \E d \in SessionDiscoveries :
        /\ ~d.raised
        /\ monitors = monitors_dict(d.monitors)
    /\ loaded = read_config(disk, "none").configs
    /\ configs = sync_configs(monitors, loaded)
    /\ prev = <<>>
    /\ op = Op("init", <<>>, "", 0)
    /\ ui = Fresh
    /\ fs = NoSave

Edit(kind, name, dir, delta) == [Op(kind, name, dir, delta) EXCEPT !.n = op.n + 1]

CanEdit == ui.open /\ op.n < MaxEdits

Frame == UNCHANGED <<monitors, loaded, fs, storeVars, discVars, lockVars>>

\* The primary checkbox of the row of a listed monitor is ticked
SelectPrimary ==
    \E name \in NamesOf(configs) :
        /\ CanEdit
        /\ configs' = on_change_primary(configs, name)
        /\ prev' = configs
        /\ op' = Edit("primary", name, "", 0)
        /\ ui' = Fresh
        /\ Frame

\* A coordinate of a row is changed
EditCoordinates ==
    \E i \in 1..Len(configs), c \in EditCoords :
        /\ CanEdit
        /\ configs' = on_coord_changed(configs, i, c[1], c[2])
        /\ prev' = configs
        /\ op' = Edit("coords", configs[i].name, "", i)
        /\ ui' = Fresh
        /\ Frame

\* _position_relative_to_primary is called (the quick-position buttons of a
\* row call it with the name of the row)
Position ==
    \E name \in Names, direction \in Directions :
        /\ CanEdit
        /\ configs' = position_relative_to_primary(monitors, configs, name, direction)
        /\ prev' = configs
        /\ op' = Edit("position", name, direction, 0)
        /\ ui' = Fresh
        /\ Frame

\* _move_monitor is called (the move buttons of a row call it with the name of
\* the row and -1 or +1)
Move ==
    \E name \in Names, direction \in {-1, 1} :
        /\ CanEdit
        /\ configs' = move_monitor(configs, name, direction)
        /\ prev' = configs
        /\ op' = Edit("move", name, "", direction)
        /\ ui' = Fresh
        /\ Frame

\* The save button
Save ==
    \E fault \in WriteFaults, k \in 0..Len(configs), ffault \in BOOLEAN, rfault \in BOOLEAN :
        /\ CanEdit
        /\ fault # "write" => k = 0
        /\ fault # "none" => ~ffault
        /\ (fault # "none" \/ ffault) => ~rfault
        /\ LET r == on_save(configs, disk, fault, k, ffault, rfault) IN
            /\ disk' = r.disk
            /\ ui' = r.ui
            /\ fs' = [log |-> r.log]
        /\ prev' = configs
        /\ op' = Edit("save", <<>>, fault, 0)
        /\ UNCHANGED <<monitors, configs, loaded, wreq, rres, sop, discVars, lockVars>>

\* The refresh button: on_refresh. An exception of get_sway_outputs ends the
\* handler before anything is assigned.
Refresh ==
    /\ ui.open
    /\ LET read == [fault \in ReadFaults |-> read_config(disk, fault).configs] IN
       \E d \in SessionDiscoveries, fault \in ReadFaults :
        /\ fault # "none" => disk.exists
        /\ IF d.raised
            THEN /\ fault = "none"
                 /\ ui' = [open |-> TRUE, toast |-> "none", raised |-> TRUE]
                 /\ UNCHANGED <<monitors, loaded, configs>>
            ELSE /\ monitors' = monitors_dict(d.monitors)
                 /\ loaded' = read[fault]
                 /\ configs' = sync_configs(monitors', loaded')
                 /\ ui' = [open |-> TRUE, toast |-> Refreshed, raised |-> FALSE]
    /\ op' = [Op("refresh", <<>>, "", 0) EXCEPT !.n = op.n]
    /\ prev' = <<>>
    /\ UNCHANGED <<fs, storeVars, discVars, lockVars>>

Next == SelectPrimary \/ EditCoordinates \/ Position \/ Move \/ Save \/ Refresh

Spec == Init /\ [][Next]_vars

\* The edit handlers on their own: one of them applied to the list as the
\* constructor leaves it
Untouched == op.kind = "init"

SelectPrimaryFirst == Untouched /\ SelectPrimary

EditCoordinatesFirst == Untouched /\ EditCoordinates

PositionFirst == Untouched /\ Position

MoveFirst == Untouched /\ Move

NextEdit == SelectPrimaryFirst \/ EditCoordinatesFirst \/ PositionFirst \/ MoveFirst

SpecEdit == Init /\ [][NextEdit]_vars

-----------------------------------------------------------------------------
(* Claims about the handlers *)

\* The entry a handler addresses by name is the first one of that name; the
\* current primary is the first entry flagged primary (0: there is none)
Least(S) == CHOOSE i \in S : \A j \in S : i <= j
Target ==
    IF \E i \in 1..Len(prev) : prev[i].name = op.name
    THEN Least({i \in 1..Len(prev) : prev[i].name = op.name}) ELSE 0
Primary ==
    IF \E i \in 1..Len(prev) : prev[i].is_primary
    THEN Least({i \in 1..Len(prev) : prev[i].is_primary}) ELSE 0

Positionable ==
    /\ Target # 0 /\ Primary # 0
    /\ prev[Target].name # prev[Primary].name
    /\ prev[Target].name \in DOMAIN monitors /\ prev[Primary].name \in DOMAIN monitors

PlacedAt(dir) ==
    LET T == prev[Target]
        P == prev[Primary]
    IN  CASE dir = "east" -> <<P.x + ExpectedScaled(P.name).w, P.y>>
          [] dir = "west" -> <<P.x - ExpectedScaled(T.name).w, P.y>>
          [] dir = "north" -> <<P.x, P.y - ExpectedScaled(T.name).h>>
          [] OTHER -> <<P.x, P.y + ExpectedScaled(P.name).h>>

\* C4: relative positioning of a target T that is not the primary P puts T at
\* east (P.x + P.scaledWidth, P.y), west (P.x - T.scaledWidth, P.y), north
\* (P.x, P.y - T.scaledHeight), south (P.x, P.y + P.scaledHeight) and changes
\* nothing else; when T is P, or T or P is missing, the list is unchanged.
C4_RelativePosition ==
    op.kind = "position" =>
        IF Positionable
        THEN configs = [prev EXCEPT ![Target].x = PlacedAt(op.dir)[1],
                                    ![Target].y = PlacedAt(op.dir)[2]]
        ELSE configs = prev

C4_Witness ==
    /\ op.kind = "position" /\ op.dir = "west" /\ op.name = <<"B">>
    /\ Len(prev) = 3 /\ Positionable
    /\ prev[Primary].name = <<"C">> /\ prev[Primary].x = 100 /\ prev[Primary].y = -50
    /\ configs[Target].x = -1606 /\ configs[Target].y = -50
    /\ configs # prev

\* C5: move-up / move-down of the entry at index i swaps it with the entry at
\* i-1 / i+1 and leaves every other entry at its index; move-up of the first
\* entry, move-down of the last entry and a move of a name not in the list
\* leave the list unchanged.
C5_MoveSwapsNeighbours ==
    op.kind = "move" =>
        LET i == Target
            j == Target + op.delta
        IN  IF i # 0 /\ j >= 1 /\ j <= Len(prev)
            THEN configs = [prev EXCEPT ![i] = prev[j], ![j] = prev[i]]
            ELSE configs = prev

C5_Witness ==
    /\ op.kind = "move" /\ op.delta = 1
    /\ Len(prev) = 3 /\ Target = 2
    /\ configs[3] = prev[2] /\ configs[2] = prev[3] /\ configs[1] = prev[1]
    /\ configs # prev

\* C9: every failure to persist the store (creating the config directory,
\* opening or locking the lock file, opening or writing the config file) is
\* answered by the failure notice, without an exception, without writing the
\* fragment, without reload and with the window left open; reload happens only
\* after the store and the fragment were written, in that order.
C9_SaveFailureIsReported ==
    op.kind = "save" =>
        /\ op.dir # "none" =>
            /\ ~ui.raised
            /\ ui.toast = SaveFailed
            /\ ui.open
            /\ fs.log = <<>>
        /\ (\E i \in 1..Len(fs.log) : fs.log[i] = "reload") =>
            fs.log = <<"store", "fragment", "reload">>

\* The second half of C9 alone: reload only after store and fragment, in order
C9_ReloadComesLast ==
    (op.kind = "save" /\ \E i \in 1..Len(fs.log) : fs.log[i] = "reload") =>
        fs.log = <<"store", "fragment", "reload">>

EditKinds == {"primary", "coords", "position", "move"}

\* The flag each name carries, and how many entries are flagged
FlagsOf(cfgs) == { <<cfgs[i].name, cfgs[i].is_primary>> : i \in 1..Len(cfgs) }

Placements(cfgs) == [i \in 1..Len(cfgs) |-> <<cfgs[i].name, cfgs[i].x, cfgs[i].y>>]

OnePrimary(cfgs) == Cardinality(PrimaryIndexes(cfgs)) = 1

\* C12: selecting a listed monitor n as primary leaves n as the only entry with
\* is_primary = true, whatever the flags were before, and changes no name,
\* coordinate or list position; coordinate edits, relative positioning and
\* moves change no is_primary flag; so an edit of a list with exactly one
\* primary leaves exactly one primary.
C12_EditsKeepOnePrimary ==
    /\ op.kind = "primary" =>
        /\ \E i \in 1..Len(configs) :
            PrimaryIndexes(configs) = {i} /\ configs[i].name = op.name
        /\ Placements(configs) = Placements(prev)
    /\ op.kind \in {"coords", "position", "move"} =>
        /\ FlagsOf(configs) = FlagsOf(prev)
        /\ Cardinality(PrimaryIndexes(configs)) = Cardinality(PrimaryIndexes(prev))
    /\ (op.kind \in EditKinds /\ OnePrimary(prev)) => OnePrimary(configs)

\* The same for the lists that name each monitor once
C12_OnePrimaryPerName ==
    Cardinality(NamesOf(prev)) = Len(prev) => C12_EditsKeepOnePrimary

-----------------------------------------------------------------------------
(* Processes calling read_config and write_config on the same config file.  *)
(* Each call is a sequence of steps (the system calls it makes); steps of   *)
(* different processes interleave in any order.                             *)

MaxProcs == 3       \* processes, one call each

Procs == 1..MaxProcs

\* The lists the writers hand to write_config
LockLists ==
    { <<MonitorConfig(<<"A">>, 0, 0, TRUE)>>,
      <<MonitorConfig(<<"B">>, 100, -50, TRUE), MonitorConfig(<<"A">>, 0, 0, FALSE)>> }

\* The config file before the first call: absent, or left by an earlier save
LockFiles ==
    { NoFile, write_config(<<MonitorConfig(<<"C">>, 0, 0, TRUE)>>, NoFile, "none", 0).disk }

NoOut == [call |-> "none", ok |-> FALSE, raised |-> FALSE, failed |-> FALSE, configs |-> <<>>]

ReadOut(cfgs, failed) == [NoOut EXCEPT !.call = "read", !.configs = cfgs, !.failed = failed]

WriteOut(ok, raised) == [NoOut EXCEPT !.call = "write", !.ok = ok, !.raised = raised]

\* A process: where it is in its call, the lock its descriptor of LOCK_FILE
\* holds, the list it writes, the entries written so far, what the call returned
Idle == [pc |-> "idle", lock |-> "none", arg |-> <<>>, k |-> 0, out |-> NoOut]

\* The call has returned (or raised); leaving the with block closes the lock
\* file, which drops the lock
Done(out) == [pc |-> "done", lock |-> "none", arg |-> <<>>, k |-> 0, out |-> out]

At(p, pc) == proc[p].pc = pc

\* A lock that ignores the other holders
flock_NoExclusion(p, mode) == TRUE

\* fcntl.flock(lock.fileno(), mode) returns: LOCK_EX when no other descriptor
\* holds a lock, LOCK_SH when no other descriptor holds LOCK_EX. Until then
\* the caller blocks.
flock(p, mode) ==
    IF mode = "ex"
    THEN \A q \in Procs \ {p} : proc[q].lock = "none"
    ELSE \A q \in Procs \ {p} : proc[q].lock # "ex"

InitLock ==
    /\ WinIdle /\ DiscIdle
    /\ wreq = <<>> /\ rres = NoRead /\ sop = StoreOp("init", "none", TRUE, FALSE)
    /\ disk \in LockFiles
    /\ proc = [p \in Procs |-> Idle]
    /\ left = {disk}

LockFrame == UNCHANGED <<wreq, rres, sop, winVars, discVars>>

\* read_config: if CONFIG_FILE.exists()
ReadBegin ==
    \E p \in Procs :
        /\ At(p, "idle")
        /\ proc' = [proc EXCEPT ![p] =
                IF disk.exists THEN [Idle EXCEPT !.pc = "r_lock"]
                ELSE Done(ReadOut(<<>>, FALSE))]
        /\ UNCHANGED <<disk, left>>
        /\ LockFrame

\* read_config: open(LOCK_FILE, 'w') and flock(LOCK_SH)
ReadLock ==
    \E p \in Procs, fault \in {"none", "lock"} :
        /\ At(p, "r_lock")
        /\ IF fault = "lock"
            THEN proc' = [proc EXCEPT ![p] = Done(ReadOut(<<>>, TRUE))]
            ELSE /\ flock(p, "sh")
                 /\ proc' = [proc EXCEPT ![p].pc = "r_read", ![p].lock = "sh"]
        /\ UNCHANGED <<disk, left>>
        /\ LockFrame

\* read_config: open(CONFIG_FILE, 'r') and the loop over its lines
ReadFile ==
    \E p \in Procs, fault \in {"none", "open"} :
        /\ At(p, "r_read")
        /\ LET r == read_config(disk, fault) IN
            proc' = [proc EXCEPT ![p] =
                IF r.failed THEN Done(ReadOut(r.configs, TRUE))
                ELSE [@ EXCEPT !.pc = "r_unlock", !.out = ReadOut(r.configs, FALSE)]]
        /\ UNCHANGED <<disk, left>>
        /\ LockFrame

\* read_config: flock(LOCK_UN) and return configs
ReadUnlock ==
    \E p \in Procs :
        /\ At(p, "r_unlock")
        /\ proc' = [proc EXCEPT ![p] = Done(proc[p].out)]
        /\ UNCHANGED <<disk, left>>
        /\ LockFrame

\* write_config: CONFIG_DIR.mkdir
WriteBegin ==
    \E p \in Procs, l \in LockLists, fault \in {"none", "mkdir"} :
        /\ At(p, "idle")
        /\ proc' = [proc EXCEPT ![p] =
                IF fault = "mkdir" THEN Done(WriteOut(FALSE, TRUE))
                ELSE [Idle EXCEPT !.pc = "w_lock", !.arg = l]]
        /\ UNCHANGED <<disk, left>>
        /\ LockFrame

\* write_config: open(LOCK_FILE, 'w') and flock(LOCK_EX)
WriteLock ==
    \E p \in Procs, fault \in {"none", "lock"} :
        /\ At(p, "w_lock")
        /\ IF fault = "lock"
            THEN proc' = [proc EXCEPT ![p] = Done(WriteOut(FALSE, FALSE))]
            ELSE /\ flock(p, "ex")
                 /\ proc' = [proc EXCEPT ![p].pc = "w_open", ![p].lock = "ex"]
        /\ UNCHANGED <<disk, left>>
        /\ LockFrame

\* write_config: open(CONFIG_FILE, 'w') truncates the file
WriteOpen ==
    \E p \in Procs, fault \in {"none", "open"} :
        /\ At(p, "w_open")
        /\ IF fault = "open"
            THEN /\ proc' = [proc EXCEPT ![p] = Done(WriteOut(FALSE, FALSE))]
                 /\ UNCHANGED disk
            ELSE /\ proc' = [proc EXCEPT ![p].pc = "w_head"]
                 /\ disk' = [exists |-> TRUE, text |-> <<>>, by |-> "partial", lines |-> <<>>]
        /\ UNCHANGED left
        /\ LockFrame

\* write_config: the three f.write calls of the header
WriteHeader ==
    \E p \in Procs :
        /\ At(p, "w_head")
        /\ proc' = [proc EXCEPT ![p].pc = "w_line"]
        /\ disk' = [disk EXCEPT !.text = @ \o HeaderText]
        /\ UNCHANGED left
        /\ LockFrame

\* write_config: f.write of the next entry; an IOError ends the call with
\* what is written so far in the file
WriteLine ==
    \E p \in Procs, fault \in {"none", "write"} :
        /\ At(p, "w_line")
        /\ proc[p].k < Len(proc[p].arg)
        /\ IF fault = "write"
            THEN /\ proc' = [proc EXCEPT ![p] = Done(WriteOut(FALSE, FALSE))]
                 /\ left' = left \cup {disk}
                 /\ UNCHANGED disk
            ELSE /\ proc' = [proc EXCEPT ![p].k = @ + 1]
                 /\ disk' = [disk EXCEPT !.text = @ \o ConfigLine(proc[p].arg[proc[p].k + 1])]
                 /\ UNCHANGED left
        /\ LockFrame

\* write_config: the end of the inner with block flushes and closes the file
WriteClose ==
    \E p \in Procs, fault \in {"none", "write"} :
        /\ At(p, "w_line")
        /\ proc[p].k = Len(proc[p].arg)
        /\ IF fault = "write"
            THEN /\ proc' = [proc EXCEPT ![p] = Done(WriteOut(FALSE, FALSE))]
                 /\ left' = left \cup {disk}
                 /\ UNCHANGED disk
            ELSE /\ proc' = [proc EXCEPT ![p].pc = "w_unlock"]
                 /\ disk' = [disk EXCEPT !.by = "write"]
                 /\ UNCHANGED left
        /\ LockFrame

\* write_config: flock(LOCK_UN) and return True
WriteUnlock ==
    \E p \in Procs :
        /\ At(p, "w_unlock")
        /\ proc' = [proc EXCEPT ![p] = Done(WriteOut(TRUE, FALSE))]
        /\ left' = left \cup {disk}
        /\ UNCHANGED disk
        /\ LockFrame

NextLock ==
    \/ ReadBegin \/ ReadLock \/ ReadFile \/ ReadUnlock
    \/ WriteBegin \/ WriteLock \/ WriteOpen \/ WriteHeader \/ WriteLine \/ WriteClose
    \/ WriteUnlock

SpecLock == InitLock /\ [][NextLock]_vars

-----------------------------------------------------------------------------
(* Claims about concurrent calls *)

\* What read_config makes of a file when nothing else touches it
Content(d) == read_config(d, "none").configs

Readers == { p \in Procs : At(p, "done") /\ proc[p].out.call = "read" }

\* Files a write_config call left after writing all of its list, and the
\* initial file
LeftComplete == { d \in left : d.by # "partial" }

\* C11, as stated: every list read_config returns is the complete content of
\* the initial file or of one completed write_config call (empty when the file
\* does not exist yet), no reader observes a partially written file, and two
\* writers never write at the same time. Read here for the read_config calls
\* that meet no I/O error themselves; one that does returns the empty list.
C11_ReadsAreComplete ==
    /\ \A p \in Readers :
        ~proc[p].out.failed => proc[p].out.configs \in { Content(d) : d \in LeftComplete }
    /\ \A p \in Procs :
        At(p, "r_unlock") => disk.by # "partial" /\ proc[p].out.configs = Content(disk)
    /\ \A p \in Procs : \A q \in Procs \ {p} : proc[p].lock = "ex" => proc[q].lock # "ex"

\* C11, amended: the lock serializes the calls, it does not make a write all
\* or nothing. A read_config call that meets no I/O error returns the content
\* of the file as it was at a moment when no writer held the lock: the initial
\* file, the file a completed write_config call left, or the file a
\* write_config call left that failed part-way (the header and the entries
\* written before the error). While a process holds the exclusive lock no
\* other process holds a lock, so no reader reads while a writer writes and
\* two writers never write at the same time.
C11_ReadsAreSerialized ==
    /\ \A p \in Readers :
        ~proc[p].out.failed => proc[p].out.configs \in { Content(d) : d \in left }
    /\ \A p \in Procs :
        At(p, "r_unlock") => disk \in left /\ proc[p].out.configs = Content(disk)
    /\ \A p \in Procs : \A q \in Procs \ {p} : proc[p].lock = "ex" => proc[q].lock = "none"
    /\ \A p \in Procs :
        proc[p].pc \in {"w_head", "w_line", "w_unlock"} => proc[p].lock = "ex"

\* A reader holds the shared lock and has read the two entries a completed
\* write_config call left, while a second writer waits for the exclusive lock
C11_Witness ==
    \E p \in Procs, q \in Procs, w \in Procs :
        /\ At(p, "r_unlock") /\ proc[p].lock = "sh" /\ Len(proc[p].out.configs) = 2
        /\ At(q, "w_lock")
        /\ At(w, "done") /\ proc[w].out.call = "write" /\ proc[w].out.ok

====
